---- MODULE Spec2Model ----
(***************************************************************************)
(* A model of dash.py: the survey-table pipeline (load_data,               *)
(* convert_utm_to_latlon, apply_attribute_filters, convert_to_geojson,     *)
(* create_map, create_statistics_chart) and the module-level script that   *)
(* chains them.                                                            *)
(*                                                                         *)
(* A DataFrame is a record [columns, rows]: columns is the sequence of     *)
(* column names, rows the sequence of rows in table order.  A row is a     *)
(* function from its column names (and "idx", the pandas index label) to   *)
(* cell values.  Python's None for a frame is the record NoFrame; for a    *)
(* scalar it is the string None.  A missing categorical cell is NaN, a     *)
(* missing timestamp is NaT.                                               *)
(*                                                                         *)
(* Spec    is one run of the module-level script (lines 236-318).          *)
(* SpecFn  applies apply_attribute_filters and create_statistics_chart to  *)
(*         tables and FilterSpecs drawn from bounded sets.                 *)
(***************************************************************************)
EXTENDS Integers, Sequences, FiniteSets, TLC

VARIABLES
    pc,                   \* position of the script
    excel,                \* the Excel file read by load_data
    df,                   \* the loaded table, NoFrame when load_data returned None
    df_to_display,        \* df without the four coordinate columns
    filters,              \* FilterSpec: sequence of [col, values], in dict order
    df_filtered,          \* result of apply_attribute_filters
    legend_column,        \* chosen legend column, or None
    color_map,            \* dict category -> colour
    gdf,                  \* GeoDataFrame returned by convert_to_geojson
    basemap_option,       \* map settings read from the sidebar
    generate_heatmap,
    generate_time_series,
    m,                    \* the map: the sequence of layers/elements added so far
    features,             \* create_map's local list of time features
    stats,                \* stats_df of create_statistics_chart
    reports               \* messages shown to the user, in order

vars == <<pc, excel, df, df_to_display, filters, df_filtered, legend_column,
          color_map, gdf, basemap_option, generate_heatmap,
          generate_time_series, m, features, stats, reports>>

\* Bounds of the model.
MaxRows == 2
MaxFnRows == 3

None == "None"
NaN == "NaN"
NaT == "NaT"
NoFrame == [none |-> TRUE]
ValueError == [error |-> "ValueError"]

SeqToSet(s) == { s[i] : i \in 1..Len(s) }

\* All sequences over S of length 0..n.
SeqsUpTo(S, n) == UNION { [1..k -> S] : k \in 0..n }

(***************************************************************************)
(* Coordinate normalisation, load_data lines 25-26:                        *)
(*   .astype(str).str.replace(',', '.').astype(float)                      *)
(* A coordinate cell is its text, a sequence of characters.                *)
(***************************************************************************)
Digits == {"0", "1", "2", "3", "4", "5", "6", "7", "8", "9"}

DigitVal(c) ==
    CASE c = "0" -> 0 [] c = "1" -> 1 [] c = "2" -> 2 [] c = "3" -> 3
      [] c = "4" -> 4 [] c = "5" -> 5 [] c = "6" -> 6 [] c = "7" -> 7
      [] c = "8" -> 8 [] c = "9" -> 9

\* str.replace(',', '.'): every comma becomes a point.
ReplaceComma(text) ==
    [i \in 1..Len(text) |-> IF text[i] = "," THEN "." ELSE text[i]]

\* The text is a decimal literal float() accepts: digits with at most one
\* point and at least one digit.
IsFloatLiteral(s) ==
    /\ \A i \in 1..Len(s) : s[i] \in Digits \cup {"."}
    /\ Cardinality({ i \in 1..Len(s) : s[i] = "." }) <= 1
    /\ \E i \in 1..Len(s) : s[i] \in Digits

RECURSIVE DigitsValue(_)
DigitsValue(s) ==
    IF s = <<>> THEN 0
    ELSE 10 * DigitsValue(SubSeq(s, 1, Len(s) - 1)) + DigitVal(s[Len(s)])

RECURSIVE Reduce(_, _)
Reduce(num, scale) ==
    IF scale > 0 /\ num % 10 = 0 THEN Reduce(num \div 10, scale - 1)
    ELSE [num |-> num, scale |-> scale]

\* float(s) with the failure coerced to a number instead of raised.
ToFloatCoerce(s) ==
    IF IsFloatLiteral(s)
    THEN LET dots == { i \in 1..Len(s) : s[i] = "." }
             ds   == SelectSeq(s, LAMBDA c : c # ".")
             sc   == IF dots = {} THEN 0 ELSE Len(s) - (CHOOSE i \in dots : TRUE)
         IN  Reduce(DigitsValue(ds), sc)
    ELSE [num |-> 0, scale |-> 0]

\* float(s): the number num / 10^scale, or ValueError.
ToFloat(s) ==
    IF IsFloatLiteral(s)
    THEN LET dots == { i \in 1..Len(s) : s[i] = "." }
             ds   == SelectSeq(s, LAMBDA c : c # ".")
             sc   == IF dots = {} THEN 0 ELSE Len(s) - (CHOOSE i \in dots : TRUE)
         IN  Reduce(DigitsValue(ds), sc)
    ELSE ValueError

NormalizeCoordinate(text) == ToFloat(ReplaceComma(text))

\* pd.to_datetime(errors='coerce'), line 20: an unparsable cell becomes NaT.
ValidDates == {"2023-01-05"}
ToDatetime(cell) ==
    IF cell \in ValidDates THEN "2023-01-05 00:00:00" ELSE NaT

\* Timestamp.isoformat(), line 118.
IsoFormat(ts) ==
    CASE ts = "2023-01-05 00:00:00" -> "2023-01-05T00:00:00"

(***************************************************************************)
(* DataFrame helpers.                                                      *)
(***************************************************************************)
Frame(columns, rows) == [columns |-> columns, rows |-> rows]

HasColumn(frame, col) == col \in SeqToSet(frame.columns)

\* frame[col].unique(), as the set of its distinct values.
Unique(frame, col) == { frame.rows[i][col] : i \in 1..Len(frame.rows) }

\* frame.drop(columns=cols)
DropColumns(frame, cols) ==
    Frame(SelectSeq(frame.columns, LAMBDA c : c \notin cols),
          [i \in 1..Len(frame.rows) |->
              [c \in (DOMAIN frame.rows[i]) \ cols |-> frame.rows[i][c]]])

(***************************************************************************)
(* apply_attribute_filters, lines 40-44.                                   *)
(***************************************************************************)
\* df[df[col].isin(values)]
IsIn(frame, col, values) ==
    [frame EXCEPT !.rows = SelectSeq(frame.rows, LAMBDA r : r[col] \in values)]

\* One iteration with the truthiness test of `values` left out.
FilterFieldNoGuard(frame, col, values) ==
    IF Cardinality(values) # Cardinality(Unique(frame, col))
    THEN IsIn(frame, col, values)
    ELSE frame

\* One iteration of the loop, lines 42-43: the field is skipped when values
\* is empty or has as many elements as the current frame has distinct values.
FilterField(frame, col, values) ==
    IF values # {} /\ Cardinality(values) # Cardinality(Unique(frame, col))
    THEN IsIn(frame, col, values)
    ELSE frame

\* The loop written as the concatenation of each field's matches instead of
\* the chain of them.
RECURSIVE ApplyAttributeFiltersConcat(_, _)
ApplyAttributeFiltersConcat(frame, fs) ==
    IF fs = <<>> THEN frame
    ELSE IF Len(fs) = 1 THEN FilterField(frame, fs[1].col, fs[1].values)
    ELSE [frame EXCEPT !.rows =
             FilterField(frame, fs[1].col, fs[1].values).rows
             \o ApplyAttributeFiltersConcat(frame, Tail(fs)).rows]

\* for col, values in filters.items(): ...; return df
RECURSIVE ApplyAttributeFilters(_, _)
ApplyAttributeFilters(frame, fs) ==
    IF fs = <<>> THEN frame
    ELSE ApplyAttributeFilters(FilterField(frame, fs[1].col, fs[1].values),
                               Tail(fs))

FilterColumns(fs) == [i \in 1..Len(fs) |-> fs[i].col]

(***************************************************************************)
(* create_statistics_chart, lines 180-194.  stats_df is modelled as the    *)
(* function Categoria -> [Contagem, Percentual, color]; Percentual is the  *)
(* fraction <<numerator, denominator>>.  value_counts() leaves NaN out.    *)
(***************************************************************************)
ValueCounts(frame, col) ==
    [v \in Unique(frame, col) \ {NaN, NaT} |->
        Cardinality({ i \in 1..Len(frame.rows) : frame.rows[i][col] = v })]

DictGet(d, k, default) == IF k \in DOMAIN d THEN d[k] ELSE default

CountsSum(counts) ==
    LET RECURSIVE Total(_)
        Total(S) == IF S = {} THEN 0
                    ELSE LET v == CHOOSE x \in S : TRUE
                         IN  counts[v] + Total(S \ {v})
    IN  Total(DOMAIN counts)

CreateStatisticsChart(frame, column_name, cmap) ==
    LET counts      == ValueCounts(frame, column_name)
        total_count == CountsSum(counts)
    IN  [v \in DOMAIN counts |->
            [Contagem   |-> counts[v],
             Percentual |-> <<counts[v] * 100, total_count>>,
             color      |-> DictGet(cmap, v, "#1f77b4")]]

(***************************************************************************)
(* SpecFn: apply_attribute_filters and create_statistics_chart on tables   *)
(* and FilterSpecs drawn from bounded sets.                                *)
(***************************************************************************)
FnColumns == <<"Tipo", "Analise">>
FnCells(col) == IF col = "Tipo" THEN {"A", "B"} ELSE {"P", NaN}
\* Values a FilterSpec may allow: the table's, and one the table never holds.
FnAllowed(col) == IF col = "Tipo" THEN {"A", "B", "C"} ELSE {"P", "Q", NaN}

FnFrames ==
    { Frame(FnColumns,
            [i \in 1..Len(cells) |->
                [idx |-> i, Tipo |-> cells[i][1], Analise |-> cells[i][2]]]) :
      cells \in SeqsUpTo(FnCells("Tipo") \X FnCells("Analise"), MaxFnRows) }

\* FilterSpecs over distinct columns, in either dict order.
FnFilterSpecs ==
    { fs \in SeqsUpTo(UNION { { [col |-> c, values |-> vs] :
                                  vs \in SUBSET FnAllowed(c) } :
                              c \in SeqToSet(FnColumns) }, 2) :
        \A i, j \in 1..Len(fs) : i # j => fs[i].col # fs[j].col }

(***************************************************************************)
(* The Excel file and load_data, lines 15-31.                              *)
(***************************************************************************)
XTexts == { <<"1", ",", "5">>, <<"1", "x", "5">> }
YTexts == { <<"7", ".", "2">>, <<"y">> }
DataCells == {"2023-01-05", "n/a"}
Categories == {"A", "B"}

ExcelFiles ==
    { [columns |-> <<"Data", "POINT_X", "POINT_Y", "Analise">>, rows |-> rs] :
        rs \in SeqsUpTo([POINT_X : XTexts, POINT_Y : YTexts,
                         Data : DataCells, Analise : Categories], MaxRows) }
    \cup
    { [columns |-> <<"POINT_X", "POINT_Y", "Analise">>, rows |-> rs] :
        rs \in SeqsUpTo([POINT_X : XTexts, POINT_Y : YTexts,
                         Analise : Categories], MaxRows) }

MsgNoDataColumn == "A coluna 'Data' nao foi encontrada no arquivo Excel."
MsgReadError == "Erro ao ler o arquivo Excel: could not convert string to float"
MsgLoadFailed == "Falha ao carregar os dados."
MsgLoaded == "Dados carregados com sucesso!"
MsgNoFilterColumns == "Nenhuma coluna selecionada para filtrar."
MsgEmptyGdf == "O GeoDataFrame esta vazio. Verifique os dados filtrados."
MsgGeojsonFailed == "Falha ao converter os dados para GeoJSON."
MsgNoTimeData == "Nenhum dado disponivel para criar o mapa temporal."
MsgSaved == "Mapa salvo como mapa_interativo.html"

\* pd.read_excel: the sheet as a frame with a RangeIndex.
ReadExcel(file) ==
    Frame(file.columns,
          [i \in 1..Len(file.rows) |->
              [c \in (DOMAIN file.rows[i]) \cup {"idx"} |->
                  IF c = "idx" THEN i ELSE file.rows[i][c]]])

\* df['Data'] = pd.to_datetime(df['Data'], errors='coerce')
ParseDates(frame) ==
    [frame EXCEPT !.rows =
        [i \in 1..Len(frame.rows) |->
            [frame.rows[i] EXCEPT !["Data"] = ToDatetime(@)]]]

\* df[col] = df[col].astype(str).str.replace(',', '.').astype(float)
ParseCoordinates(frame, col) ==
    [frame EXCEPT !.rows =
        [i \in 1..Len(frame.rows) |->
            [frame.rows[i] EXCEPT ![col] = NormalizeCoordinate(@)]]]

\* Some cell of the column fails to convert: astype(float) raises.
RaisesValueError(frame, col) ==
    \E i \in 1..Len(frame.rows) :
        NormalizeCoordinate(frame.rows[i][col]) = ValueError

\* load_data(file_path): the frame returned (NoFrame for None) and the
\* messages it shows.
LoadData(file) ==
    LET df0  == ReadExcel(file)
        df1  == IF HasColumn(df0, "Data")
                THEN ParseDates(df0) ELSE df0
        msgs == IF HasColumn(df0, "Data") THEN <<>> ELSE <<MsgNoDataColumn>>
    IN  IF RaisesValueError(df1, "POINT_X") \/ RaisesValueError(df1, "POINT_Y")
        THEN [frame |-> NoFrame, msgs |-> Append(msgs, MsgReadError)]
        ELSE [frame |-> ParseCoordinates(ParseCoordinates(df1, "POINT_X"),
                                         "POINT_Y"),
              msgs  |-> msgs]

\* convert_utm_to_latlon, lines 34-37.  The pyproj transform is external: it
\* is a fixed pointwise map of (POINT_X, POINT_Y), kept uninterpreted.
ConvertUtmToLatlon(frame) ==
    Frame(frame.columns \o <<"Longitude", "Latitude">>,
          [i \in 1..Len(frame.rows) |->
              [c \in (DOMAIN frame.rows[i]) \cup {"Longitude", "Latitude"} |->
                  IF c = "Longitude"
                  THEN <<"lon", frame.rows[i]["POINT_X"], frame.rows[i]["POINT_Y"]>>
                  ELSE IF c = "Latitude"
                  THEN <<"lat", frame.rows[i]["POINT_X"], frame.rows[i]["POINT_Y"]>>
                  ELSE frame.rows[i][c]]])

CoordinateColumns == {"POINT_X", "POINT_Y", "Longitude", "Latitude"}

(***************************************************************************)
(* The script, lines 236-318.                                              *)
(***************************************************************************)
Defaults ==
    /\ df = NoFrame
    /\ df_to_display = NoFrame
    /\ filters = <<>>
    /\ df_filtered = NoFrame
    /\ legend_column = None
    /\ color_map = <<>>
    /\ gdf = NoFrame
    /\ basemap_option = None
    /\ generate_heatmap = FALSE
    /\ generate_time_series = FALSE
    /\ m = <<>>
    /\ features = <<>>
    /\ stats = <<>>
    /\ reports = <<>>

Init ==
    /\ pc = "load_data"
    /\ excel \in ExcelFiles
    /\ Defaults

\* line 236: df = load_data(excel_file)
Load ==
    /\ pc = "load_data"
    /\ df' = LoadData(excel).frame
    /\ reports' = reports \o LoadData(excel).msgs
    /\ pc' = "loaded"
    /\ UNCHANGED <<excel, df_to_display, filters, df_filtered, legend_column,
                   color_map, gdf, basemap_option, generate_heatmap,
                   generate_time_series, m, features, stats>>

\* lines 317-318: df is None
LoadFailed ==
    /\ pc = "loaded"
    /\ df = NoFrame
    /\ reports' = Append(reports, MsgLoadFailed)
    /\ pc' = "done"
    /\ UNCHANGED <<excel, df, df_to_display, filters, df_filtered,
                   legend_column, color_map, gdf, basemap_option,
                   generate_heatmap, generate_time_series, m, features, stats>>

\* lines 238-245: reprojection and the display frame
Reproject ==
    /\ pc = "loaded"
    /\ df # NoFrame
    /\ df' = ConvertUtmToLatlon(df)
    /\ df_to_display' = DropColumns(df', CoordinateColumns)
    /\ reports' = Append(reports, MsgLoaded)
    /\ pc' = "filter_columns"
    /\ UNCHANGED <<excel, filters, df_filtered, legend_column, color_map, gdf,
                   basemap_option, generate_heatmap, generate_time_series, m,
                   features, stats>>

\* lines 247-251, 315-316: no column selected in the sidebar
NoFilterColumns ==
    /\ pc = "filter_columns"
    /\ reports' = Append(reports, MsgNoFilterColumns)
    /\ pc' = "done"
    /\ UNCHANGED <<excel, df, df_to_display, filters, df_filtered,
                   legend_column, color_map, gdf, basemap_option,
                   generate_heatmap, generate_time_series, m, features, stats>>

\* What the sidebar can return: a non-empty selection of distinct columns,
\* in the order picked, and for each a subset of its distinct values.
FilterChoices(frame) ==
    { fs \in SeqsUpTo(UNION { { [col |-> c, values |-> vs] :
                                  vs \in SUBSET Unique(frame, c) } :
                              c \in SeqToSet(frame.columns) },
                      Len(frame.columns)) :
        /\ fs # <<>>
        /\ \A i, j \in 1..Len(fs) : i # j => fs[i].col # fs[j].col }

\* lines 247-261: the filters are read and applied
Filter ==
    /\ pc = "filter_columns"
    /\ \E fs \in FilterChoices(df_to_display) :
          /\ filters' = fs
          /\ df_filtered' = ApplyAttributeFilters(df_to_display, fs)
    /\ pc' = "legend"
    /\ UNCHANGED <<excel, df, df_to_display, legend_column, color_map, gdf,
                   basemap_option, generate_heatmap, generate_time_series, m,
                   features, stats, reports>>

\* The colours the pickers return; "#3388ff" is the picker's initial value.
Colors == {"#3388ff"}

\* lines 263-274: legend column and one colour per distinct value of it in
\* the filtered frame
Legend ==
    /\ pc = "legend"
    /\ \E lc \in {None} \cup SeqToSet(FilterColumns(filters)) :
          /\ legend_column' = lc
          /\ IF lc # None
             THEN color_map' \in [Unique(df_filtered, lc) -> Colors]
             ELSE color_map' = <<>>
    /\ pc' = "convert_to_geojson"
    /\ UNCHANGED <<excel, df, df_to_display, filters, df_filtered, gdf,
                   basemap_option, generate_heatmap, generate_time_series, m,
                   features, stats, reports>>

(***************************************************************************)
(* convert_to_geojson, lines 47-63: the GeoDataFrame (NoFrame for None)    *)
(* and the message shown.                                                  *)
(***************************************************************************)
WithGeometry(frame) ==
    Frame(Append(frame.columns, "geometry"),
          [i \in 1..Len(frame.rows) |->
              [c \in (DOMAIN frame.rows[i]) \cup {"geometry"} |->
                  IF c = "geometry"
                  THEN <<frame.rows[i]["Longitude"], frame.rows[i]["Latitude"]>>
                  ELSE frame.rows[i][c]]])

\* The emptiness test of line 51 left out.
ConvertToGeojsonNoEmptyCheck(frame) ==
    IF HasColumn(frame, "Longitude") /\ HasColumn(frame, "Latitude")
    THEN [gdf |-> WithGeometry(frame), msgs |-> <<>>]
    ELSE [gdf |-> NoFrame, msgs |-> <<"O arquivo Excel nao contem colunas 'Longitude' e 'Latitude'.">>]

ConvertToGeojson(frame) ==
    IF HasColumn(frame, "Longitude") /\ HasColumn(frame, "Latitude")
    THEN IF Len(frame.rows) # 0
         THEN [gdf |-> WithGeometry(frame), msgs |-> <<>>]
         ELSE [gdf |-> NoFrame, msgs |-> <<MsgEmptyGdf>>]
    ELSE [gdf |-> NoFrame, msgs |-> <<"O arquivo Excel nao contem colunas 'Longitude' e 'Latitude'.">>]

\* line 276 with lines 278, 313-314: the unfiltered df is converted; on
\* None the run ends with the failure message
GeojsonFailed ==
    /\ pc = "convert_to_geojson"
    /\ ConvertToGeojson(df).gdf = NoFrame
    /\ gdf' = NoFrame
    /\ reports' = reports \o ConvertToGeojson(df).msgs \o <<MsgGeojsonFailed>>
    /\ pc' = "done"
    /\ UNCHANGED <<excel, df, df_to_display, filters, df_filtered,
                   legend_column, color_map, basemap_option, generate_heatmap,
                   generate_time_series, m, features, stats>>

BasemapOptions ==
    {"OpenStreetMap", "Google Maps", "Google Satellite", "Google Terrain",
     "ESRI Satellite", "ESRI Street"}

\* line 276 with lines 278-288: the map settings are read and create_map is
\* called
Geojson ==
    /\ pc = "convert_to_geojson"
    /\ ConvertToGeojson(df).gdf # NoFrame
    /\ gdf' = ConvertToGeojson(df).gdf
    /\ reports' = reports \o ConvertToGeojson(df).msgs
    /\ basemap_option' \in BasemapOptions
    /\ generate_heatmap' \in BOOLEAN
    /\ generate_time_series' \in BOOLEAN
    /\ pc' = "cm_basemap"
    /\ UNCHANGED <<excel, df, df_to_display, filters, df_filtered,
                   legend_column, color_map, m, features, stats>>

(***************************************************************************)
(* create_map, lines 83-170.                                               *)
(***************************************************************************)
\* lines 86-97
BasemapName(option) ==
    CASE option = "Google Maps" -> "ROADMAP"
      [] option = "Google Satellite" -> "SATELLITE"
      [] option = "Google Terrain" -> "TERRAIN"
      [] option = "ESRI Satellite" -> "Esri.WorldImagery"
      [] option = "ESRI Street" -> "Esri.WorldStreetMap"
      [] OTHER -> "openstreetmap"

CmUnchanged ==
    UNCHANGED <<excel, df, df_to_display, filters, df_filtered, legend_column,
                color_map, gdf, basemap_option, generate_heatmap,
                generate_time_series, stats>>

\* lines 84-97
CmBasemap ==
    /\ pc = "cm_basemap"
    /\ m' = <<[kind |-> "basemap", name |-> BasemapName(basemap_option)]>>
    /\ pc' = "cm_logo"
    /\ UNCHANGED <<features, reports>>
    /\ CmUnchanged

\* line 99
CmLogo ==
    /\ pc = "cm_logo"
    /\ m' = Append(m, [kind |-> "logo"])
    /\ pc' = "cm_locate"
    /\ UNCHANGED <<features, reports>>
    /\ CmUnchanged

\* line 101
CmLocate ==
    /\ pc = "cm_locate"
    /\ m' = Append(m, [kind |-> "locate"])
    /\ pc' = "cm_heat"
    /\ UNCHANGED <<features, reports>>
    /\ CmUnchanged

HeatData(frame) ==
    [i \in 1..Len(frame.rows) |->
        <<frame.rows[i]["Latitude"], frame.rows[i]["Longitude"]>>]

\* The heat layer slipped under the controls added before it.
CmHeatBelow ==
    /\ pc = "cm_heat"
    /\ m' = IF generate_heatmap
            THEN <<[kind |-> "heat", data |-> HeatData(gdf)]>> \o m
            ELSE m
    /\ pc' = "cm_time"
    /\ UNCHANGED <<features, reports>>
    /\ CmUnchanged

\* lines 103-105
CmHeat ==
    /\ pc = "cm_heat"
    /\ m' = IF generate_heatmap
            THEN Append(m, [kind |-> "heat", data |-> HeatData(gdf)])
            ELSE m
    /\ pc' = "cm_time"
    /\ UNCHANGED <<features, reports>>
    /\ CmUnchanged

\* lines 111-122: the feature of one row
TimeFeature(row, lc, cmap) ==
    [time   |-> IsoFormat(row["Data"]),
     coords |-> <<row["Longitude"], row["Latitude"]>>,
     popup  |-> IF lc # None THEN row[lc] ELSE "",
     color  |-> IF cmap # <<>> THEN DictGet(cmap, row[lc], "blue") ELSE "blue"]

\* lines 108-123: one feature per row whose Data is not null
TimeFeatures(frame, lc, cmap) ==
    LET kept == SelectSeq(frame.rows, LAMBDA r : r["Data"] # NaT)
    IN  [i \in 1..Len(kept) |-> TimeFeature(kept[i], lc, cmap)]

\* lines 107-143
CmTime ==
    /\ pc = "cm_time"
    /\ IF generate_time_series /\ HasColumn(gdf, "Data")
       THEN /\ features' = TimeFeatures(gdf, legend_column, color_map)
            /\ IF features' # <<>>
               THEN /\ m' = Append(m, [kind |-> "time", features |-> features'])
                    /\ UNCHANGED reports
               ELSE /\ reports' = Append(reports, MsgNoTimeData)
                    /\ UNCHANGED m
       ELSE UNCHANGED <<features, m, reports>>
    /\ pc' = "cm_markers"
    /\ CmUnchanged

\* The rows before the first whose legend value is no key of the dict.
MappedPrefix(frame, lc, cmap) ==
    LET bad == { i \in 1..Len(frame.rows) : frame.rows[i][lc] \notin DOMAIN cmap }
        n   == IF bad = {} THEN Len(frame.rows)
               ELSE (CHOOSE i \in bad : \A j \in bad : i <= j) - 1
    IN  SubSeq(frame.rows, 1, n)

Markers(rows, lc, cmap) ==
    [i \in 1..Len(rows) |->
        [kind     |-> "marker",
         location |-> <<rows[i]["Latitude"], rows[i]["Longitude"]>>,
         color    |-> cmap[rows[i][lc]]]]

MarkersRequested == legend_column # None /\ color_map # <<>>

\* line 145 false: no marker layer, no legend
CmNoMarkers ==
    /\ pc = "cm_markers"
    /\ ~MarkersRequested
    /\ pc' = "cm_return"
    /\ UNCHANGED <<m, features, reports>>
    /\ CmUnchanged

\* lines 145-152: one CircleMarker per row of gdf
CmMarkers ==
    /\ pc = "cm_markers"
    /\ MarkersRequested
    /\ MappedPrefix(gdf, legend_column, color_map) = gdf.rows
    /\ m' = m \o Markers(gdf.rows, legend_column, color_map)
    /\ pc' = "cm_legend"
    /\ UNCHANGED <<features, reports>>
    /\ CmUnchanged

\* line 149: color_map[row[legend_column]] raises KeyError, which nothing
\* catches: the run ends there
CmKeyError ==
    /\ pc = "cm_markers"
    /\ MarkersRequested
    /\ MappedPrefix(gdf, legend_column, color_map) # gdf.rows
    /\ m' = m \o Markers(MappedPrefix(gdf, legend_column, color_map),
                         legend_column, color_map)
    /\ pc' = "exception"
    /\ UNCHANGED <<features, reports>>
    /\ CmUnchanged

\* lines 154-168
CmLegend ==
    /\ pc = "cm_legend"
    /\ m' = Append(m, [kind |-> "legend", entries |-> color_map])
    /\ pc' = "cm_return"
    /\ UNCHANGED <<features, reports>>
    /\ CmUnchanged

\* line 170: return m
CmReturn ==
    /\ pc = "cm_return"
    /\ pc' = "add_geojson"
    /\ UNCHANGED <<m, features, reports>>
    /\ CmUnchanged

\* lines 288-293: the script adds the GeoJSON layer to the returned map and
\* shows it
AddGeojson ==
    /\ pc = "add_geojson"
    /\ m' = Append(m, [kind |-> "geojson"])
    /\ pc' = "statistics"
    /\ UNCHANGED <<features, reports>>
    /\ CmUnchanged

\* lines 296-303
Statistics ==
    /\ pc = "statistics"
    /\ stats' = IF HasColumn(df_filtered, "Analise")
                THEN CreateStatisticsChart(df_filtered, "Analise", color_map)
                ELSE stats
    /\ pc' = "save"
    /\ UNCHANGED <<excel, df, df_to_display, filters, df_filtered,
                   legend_column, color_map, gdf, basemap_option,
                   generate_heatmap, generate_time_series, m, features,
                   reports>>

\* lines 305-312: the save button, then the tables are written
Save ==
    /\ pc = "save"
    /\ \E clicked \in BOOLEAN :
          reports' = IF clicked THEN Append(reports, MsgSaved) ELSE reports
    /\ pc' = "done"
    /\ UNCHANGED <<excel, df, df_to_display, filters, df_filtered,
                   legend_column, color_map, gdf, basemap_option,
                   generate_heatmap, generate_time_series, m, features, stats>>

Next ==
    \/ Load
    \/ LoadFailed
    \/ Reproject
    \/ NoFilterColumns
    \/ Filter
    \/ Legend
    \/ GeojsonFailed
    \/ Geojson
    \/ CmBasemap
    \/ CmLogo
    \/ CmLocate
    \/ CmHeat
    \/ CmTime
    \/ CmNoMarkers
    \/ CmMarkers
    \/ CmKeyError
    \/ CmLegend
    \/ CmReturn
    \/ AddGeojson
    \/ Statistics
    \/ Save

Spec == Init /\ [][Next]_vars

(***************************************************************************)
(* SpecFn.                                                                 *)
(***************************************************************************)
InitFn ==
    /\ pc = "fn_start"
    /\ excel = [columns |-> <<>>, rows |-> <<>>]
    /\ df \in FnFrames
    /\ filters \in FnFilterSpecs
    /\ df_to_display = NoFrame
    /\ df_filtered = NoFrame
    /\ legend_column = None
    /\ color_map = <<>>
    /\ gdf = NoFrame
    /\ basemap_option = None
    /\ generate_heatmap = FALSE
    /\ generate_time_series = FALSE
    /\ m = <<>>
    /\ features = <<>>
    /\ stats = <<>>
    /\ reports = <<>>

\* df_filtered = apply_attribute_filters(df, filters)
FnFilter ==
    /\ pc = "fn_start"
    /\ df_filtered' = ApplyAttributeFilters(df, filters)
    /\ pc' = "fn_filtered"
    /\ UNCHANGED <<excel, df, df_to_display, filters, legend_column, color_map,
                   gdf, basemap_option, generate_heatmap, generate_time_series,
                   m, features, stats, reports>>

\* create_statistics_chart(df_filtered, 'Analise', color_map)
FnStatistics ==
    /\ pc = "fn_filtered"
    /\ stats' = CreateStatisticsChart(df_filtered, "Analise", color_map)
    /\ pc' = "fn_done"
    /\ UNCHANGED <<excel, df, df_to_display, filters, df_filtered,
                   legend_column, color_map, gdf, basemap_option,
                   generate_heatmap, generate_time_series, m, features,
                   reports>>

NextFn == FnFilter \/ FnStatistics

SpecFn == InitFn /\ [][NextFn]_vars

(***************************************************************************)
(* Properties of apply_attribute_filters and create_statistics_chart,      *)
(* checked under SpecFn.                                                   *)
(***************************************************************************)
\* The row meets every constraint of the FilterSpec.
Satisfies(row, fs) == \A i \in 1..Len(fs) : row[fs[i].col] \in fs[i].values

IdxSet(rows) == { rows[i]["idx"] : i \in 1..Len(rows) }

Filtered == pc \in {"fn_filtered", "fn_done"}

\* C1: with every allowed set non-empty, the rows returned are exactly the
\* rows of the table whose value in every constrained field is in that
\* field's allowed set.
C1_ExactRows ==
    (Filtered /\ \A i \in 1..Len(filters) : filters[i].values # {})
        => IdxSet(df_filtered.rows)
             = IdxSet(SelectSeq(df.rows, LAMBDA r : Satisfies(r, filters)))

\* C2 as stated: an empty allowed set for some constrained field gives zero
\* rows.
C2_EmptyExcludesAll ==
    (Filtered /\ \E i \in 1..Len(filters) : filters[i].values = {})
        => df_filtered.rows = <<>>

\* C2 as amended: a field whose allowed set is empty imposes no constraint;
\* the result is that of the FilterSpec without such fields, and the table
\* itself when every constrained field has an empty allowed set.
C2_EmptyIsNoConstraint ==
    (Filtered /\ \E i \in 1..Len(filters) : filters[i].values = {})
        => /\ df_filtered
                = ApplyAttributeFilters(
                      df, SelectSeq(filters, LAMBDA f : f.values # {}))
           /\ (\A i \in 1..Len(filters) : filters[i].values = {})
                => df_filtered = df

C2_Witness ==
    /\ Filtered
    /\ Len(filters) = 2
    /\ \E i \in 1..2 : filters[i].values = {}
    /\ df_filtered.rows # <<>>
    /\ Len(df_filtered.rows) < Len(df.rows)

\* The FilterSpec with its fields taken in the order p.
Permuted(fs, p) == [i \in 1..Len(fs) |-> fs[p[i]]]

FieldOrders(n) ==
    { p \in [1..n -> 1..n] : \A i, j \in 1..n : i # j => p[i] # p[j] }

\* C3: over two or more fields, every order of the fields gives the same rows
\* in the same order.
C3_OrderIndependent ==
    (Filtered /\ Len(filters) >= 2)
        => \A p \in FieldOrders(Len(filters)) :
              ApplyAttributeFilters(df, Permuted(filters, p)).rows
                = df_filtered.rows

\* C4: when every constrained field's allowed set is the set of distinct
\* values of that field in the input, the result is the input, row for row.
C4_FullSetsNoOp ==
    (Filtered /\ \A i \in 1..Len(filters) :
                    filters[i].values = Unique(df, filters[i].col))
        => /\ df_filtered.rows = df.rows
           /\ df_filtered.columns = df.columns

C4_Witness ==
    /\ Filtered
    /\ Len(filters) = 2
    /\ \A i \in 1..2 : filters[i].values = Unique(df, filters[i].col)
    /\ \A i \in 1..2 : Cardinality(filters[i].values) = 2
    /\ df_filtered.rows = df.rows

\* C9: for a non-empty filtered table the per-category counts sum to the
\* number of filtered rows.
C9_CountsSumToRows ==
    (pc = "fn_done" /\ df_filtered.rows # <<>>)
        => CountsSum([v \in DOMAIN stats |-> stats[v].Contagem])
             = Len(df_filtered.rows)

(***************************************************************************)
(* Properties of the script, checked under Spec.                           *)
(***************************************************************************)
CreateMapPositions ==
    {"cm_basemap", "cm_logo", "cm_locate", "cm_heat", "cm_time", "cm_markers",
     "cm_legend", "cm_return"}

\* create_map has returned its map to the script.
SceneReturned == pc \in {"add_geojson", "statistics", "save", "done"} /\ m # <<>>

Kinds(layers) == [i \in 1..Len(layers) |-> layers[i].kind]

HasLayer(kind) == \E i \in 1..Len(m) : m[i].kind = kind

\* C5: when the marker layer is composed, a legend value with no entry in
\* the colour map falls back to a default colour and create_map completes.
C5_MarkerLookupNeverFails ==
    (legend_column # None /\ color_map # <<>>
       /\ gdf # NoFrame
       /\ \E i \in 1..Len(gdf.rows) :
             gdf.rows[i][legend_column] \notin DOMAIN color_map)
        => pc # "exception"

\* The filtered rows whose timestamp is not missing.
TimestampedRows(frame) == SelectSeq(frame.rows, LAMBDA r : r["Data"] # NaT)

\* C6: when the time-aware layer is requested, the number of time features
\* equals the number of filtered rows with a non-missing timestamp.
C6_TimeFeaturesMatchFilteredRows ==
    (pc = "cm_markers" /\ generate_time_series /\ HasColumn(gdf, "Data"))
        => Len(features) = Len(TimestampedRows(df_filtered))

Rank(kind) ==
    CASE kind = "basemap" -> 1
      [] kind = "logo" -> 2
      [] kind = "locate" -> 3
      [] kind = "heat" -> 4
      [] kind = "time" -> 5
      [] kind = "marker" -> 6
      [] kind = "legend" -> 7
      [] kind = "geojson" -> 8

\* C7: layers are added in the order base tile layer, logo, location control,
\* heat layer, timestamped layer, markers, legend panel; no layer is ever
\* added before one that precedes it in this order, and the map create_map
\* returns starts with the base layer, the logo and the location control.
C7_LayerOrder ==
    /\ \A i \in 1..(Len(m) - 1) :
          \/ Rank(m[i].kind) < Rank(m[i + 1].kind)
          \/ m[i].kind = "marker" /\ m[i + 1].kind = "marker"
    /\ pc = "add_geojson"
          => /\ Len(m) >= 3
             /\ SubSeq(Kinds(m), 1, 3) = <<"basemap", "logo", "locate">>
             /\ HasLayer("heat") => generate_heatmap
             /\ HasLayer("time") => generate_time_series
             /\ HasLayer("marker") => HasLayer("legend")
             /\ HasLayer("legend") => legend_column # None /\ color_map # <<>>

C7_Witness ==
    /\ pc = "add_geojson"
    /\ HasLayer("heat")
    /\ HasLayer("time")
    /\ HasLayer("marker")
    /\ HasLayer("legend")
    /\ Len(m) = 8

\* The loaded table has no rows, so the point feature set is empty.
EmptyFeatureSet == df # NoFrame /\ df.rows = <<>>

InReports(msg) == \E i \in 1..Len(reports) : reports[i] = msg

NumericChars == Digits \cup {",", "."}
HasGarbage(text) == \E i \in 1..Len(text) : text[i] \notin NumericChars

MalformedInput ==
    \E i \in 1..Len(excel.rows) :
        HasGarbage(excel.rows[i]["POINT_X"]) \/ HasGarbage(excel.rows[i]["POINT_Y"])

====
